---- MODULE Spec2Model ----
(***************************************************************************)
(* The MkldnnRNN kernels (src/kernels/mkldnn_rnn_ops.cc) and the shape     *)
(* functions of their ops (src/ops/mkldnn_rnn_ops.cc).                     *)
(*                                                                         *)
(* One kernel instance is constructed (Construct) and then runs Compute    *)
(* calls one after the other.  A tensor is represented by its shape, a     *)
(* sequence of dimension sizes; TensorShape({}) is the empty sequence.     *)
(* The inputs and outputs of a call are functions from a name (an output   *)
(* index) to a shape, whose domain holds the tensors fetched (allocated)   *)
(* so far.                                                                 *)
(***************************************************************************)
EXTENDS Integers, Sequences, FiniteSets, TLC

VARIABLES
  kernel,        \* which OpKernel class the instance is
  model_types,   \* MkldnnRNNKernelCommon::model_types_
  is_training,   \* MkldnnRNNForwardOp::is_training_
  pc,            \* position of the running Compute call
  inputs,        \* the input tensors of the call (OpKernelContext), by name
  model_shapes,  \* the local MkldnnModelShapes
  outputs,       \* the outputs allocated with context->allocate_output
  status,        \* the status of the call: [code, text, shapes]
  held,          \* the transient objects created with new and not yet deleted
  total_w,       \* the local total_w
  invoked,       \* how many times the call submitted the primitive
  params_size,   \* the value MkldnnRNNParamsSizeOp writes to output 0
  attrs,         \* the attributes of the node the kernel is constructed from
  log,           \* the lines the call wrote with LOG(ERROR)
  descs,         \* the dimensions of the call's memory::desc objects, by name
  views,         \* the call's memory objects: descriptor and aliased tensor
  fwd_desc,      \* the arguments of the call's rnn_forward::desc
  zeroed,        \* how many elements of params_backprop the call has cleared
  phases,        \* the steps of the call completed so far, in order
  calls          \* the Compute calls running at once on the kernel, by thread

vars == <<kernel, model_types, is_training, pc, inputs, model_shapes,
          outputs, status, held, total_w, invoked, params_size, attrs, log,
          descs, views, fwd_desc, zeroed, phases, calls>>

----------------------------------------------------------------------------
(* Bounds of the model. *)

MaxSeq == 1
MaxBatch == 2
MaxInputSize == 1
MaxUnits == 1
MaxLead == 2
MaxWorkspace == 1
MaxLayersArg == 3
MaxSizeArg == 5

----------------------------------------------------------------------------
(* Values. *)

RnnModes == {"rnn_relu", "rnn_tanh", "rnn_lstm", "rnn_gru"}

InputModes == {"rnn_linear_input", "rnn_skip_input"}

Directions == {"rnn_unidirectional", "rnn_bidirectional"}

Kernels == {"MkldnnRNNParamsSize", "MkldnnRNN", "MkldnnRNNBackprop"}

Empty == <<>>

OK == [code |-> "OK"]

\* The process has aborted: a failed CHECK, or a read outside an object.
Killed == [code |-> "Killed"]

RECURSIVE NumElements(_)
NumElements(shape) ==
  IF shape = <<>> THEN 1 ELSE Head(shape) * NumElements(Tail(shape))

HasInputC(mt) == mt.rnn_mode = "rnn_lstm"

----------------------------------------------------------------------------
(* The arithmetic of int: 32 bits, two's complement. *)

RECURSIVE BytesFrom(_, _, _)
BytesFrom(v, n, i) ==
  IF i > n THEN <<>>
  ELSE <<IF i <= 4 THEN (v \div 256^(i - 1)) % 256
         ELSE IF v < 0 THEN 255 ELSE 0>> \o BytesFrom(v, n, i + 1)

\* The n bytes, lowest first, of the int v sign-extended to n bytes.
Bytes(v, n) == BytesFrom(v, n, 1)

\* The int whose representation is the four lowest bytes of b.
ToInt(b) ==
  b[1] + 256 * b[2] + 65536 * b[3]
    + 256^3 * (IF b[4] >= 128 THEN b[4] - 256 ELSE b[4])

RECURSIVE ColumnSum(_, _, _, _)
ColumnSum(a, b, k, j) ==
  IF j = 0 THEN 0 ELSE a[j] * b[k + 1 - j] + ColumnSum(a, b, k, j - 1)

RECURSIVE MulFrom(_, _, _, _)
MulFrom(a, b, k, carry) ==
  IF k > Len(a) THEN <<>>
  ELSE <<(ColumnSum(a, b, k, k) + carry) % 256>>
         \o MulFrom(a, b, k + 1, (ColumnSum(a, b, k, k) + carry) \div 256)

\* The product of two numbers given by their bytes, to as many bytes.
BytesMul(a, b) == MulFrom(a, b, 1, 0)

RECURSIVE AddFrom(_, _, _, _)
AddFrom(a, b, k, carry) ==
  IF k > Len(a) THEN <<>>
  ELSE <<(a[k] + b[k] + carry) % 256>>
         \o AddFrom(a, b, k + 1, (a[k] + b[k] + carry) \div 256)

\* The sum of two numbers given by their bytes, to as many bytes.
BytesAdd(a, b) == AddFrom(a, b, 1, 0)

\* An int value, and whether an operation that led to it overflowed.
AsInt(v) == [v |-> v, ub |-> FALSE]

\* Operands whose product and sum are certain to be in the range of int.
Small(v) == -(2^15) < v /\ v < 2^15

\* x * y in int: the product is computed to 64 bits and has overflowed when
\* it is not the sign extension of its low 32 bits.
IntMul(x, y) ==
  IF Small(x.v) /\ Small(y.v)
  THEN [v |-> x.v * y.v, ub |-> x.ub \/ y.ub]
  ELSE LET p == BytesMul(Bytes(x.v, 8), Bytes(y.v, 8))
       IN  [v |-> ToInt(p), ub |-> x.ub \/ y.ub \/ p # Bytes(ToInt(p), 8)]

\* x + y in int (x - 1 is x + (-1)).
IntAdd(x, y) ==
  IF Small(x.v) /\ Small(y.v)
  THEN [v |-> x.v + y.v, ub |-> x.ub \/ y.ub]
  ELSE LET p == BytesAdd(Bytes(x.v, 8), Bytes(y.v, 8))
       IN  [v |-> ToInt(p), ub |-> x.ub \/ y.ub \/ p # Bytes(ToInt(p), 8)]

----------------------------------------------------------------------------
(* The parameter buffer's length. *)

\* get_param_size with the higher layers sized like the first one.
get_param_size_SameLayers(rnn_mode, dir_count, input_size, num_units, num_layers) ==
  LET g == CASE rnn_mode \in {"rnn_relu", "rnn_tanh"} -> 1
             [] rnn_mode = "rnn_lstm" -> 4
             [] rnn_mode = "rnn_gru" -> 3
  IN  g * num_layers * num_units * (input_size + num_units + 2) * dir_count

\* get_param_size with the higher layers' weights subtracted from the first
\* layer's instead of added to them.
get_param_size_HigherSubtracted(rnn_mode, dir_count, input_size, num_units, num_layers) ==
  LET g == CASE rnn_mode \in {"rnn_relu", "rnn_tanh"} -> 1
             [] rnn_mode = "rnn_lstm" -> 4
             [] rnn_mode = "rnn_gru" -> 3
      first_layer_weights == g * num_units * (input_size + num_units + 2)
      higher_layer_weights ==
        g * (num_layers - 1) * num_units * (num_units + num_units + 2)
  IN  (first_layer_weights - higher_layer_weights) * dir_count

\* The value of the int expression get_param_size assigns to params_size,
\* and whether computing it overflowed.  The operands are int, so every
\* product and sum is computed in int, left to right.
params_size_int(rnn_mode, dir_count, input_size, num_units, num_layers) ==
  IF rnn_mode \in {"rnn_relu", "rnn_tanh"}
  THEN LET first_layer_weights ==
             IntMul(AsInt(num_units),
                    IntAdd(IntAdd(AsInt(input_size), AsInt(num_units)), AsInt(2)))
           higher_layer_weights ==
             IntMul(IntMul(IntAdd(AsInt(num_layers), AsInt(-1)), AsInt(num_units)),
                    IntAdd(IntAdd(AsInt(num_units), AsInt(num_units)), AsInt(2)))
       IN  IntMul(IntAdd(first_layer_weights, higher_layer_weights), AsInt(dir_count))
  ELSE IF rnn_mode = "rnn_lstm"
  THEN LET first_layer_weights ==
             IntMul(IntMul(AsInt(4), AsInt(num_units)),
                    IntAdd(IntAdd(AsInt(input_size), AsInt(num_units)), AsInt(2)))
           higher_layer_weights ==
             IntMul(IntMul(IntMul(AsInt(4), IntAdd(AsInt(num_layers), AsInt(-1))),
                           AsInt(num_units)),
                    IntAdd(IntAdd(AsInt(num_units), AsInt(num_units)), AsInt(2)))
       IN  IntMul(IntAdd(first_layer_weights, higher_layer_weights), AsInt(dir_count))
  ELSE IF rnn_mode = "rnn_gru"
  THEN LET first_layer_weights ==
             IntMul(IntMul(AsInt(3), AsInt(num_units)),
                    IntAdd(IntAdd(AsInt(input_size), AsInt(num_units)), AsInt(2)))
           higher_layer_weights ==
             IntMul(IntMul(IntMul(AsInt(3), IntAdd(AsInt(num_layers), AsInt(-1))),
                           AsInt(num_units)),
                    IntAdd(IntAdd(AsInt(num_units), AsInt(num_units)), AsInt(2)))
       IN  IntMul(IntAdd(first_layer_weights, higher_layer_weights), AsInt(dir_count))
  ELSE AsInt(-1)

\* What get_param_size returns where no int operation overflows, and the
\* wrapped value where one does: the int result converted to int64.
get_param_size(rnn_mode, dir_count, input_size, num_units, num_layers) ==
  params_size_int(rnn_mode, dir_count, input_size, num_units, num_layers).v

\* The ways a call of get_param_size can end.  An int operation that
\* overflows is undefined: the build either wraps the value modulo 2^32 or
\* traps, which aborts the process.
get_param_size_outcomes(rnn_mode, dir_count, input_size, num_units, num_layers) ==
  {[code |-> "OK",
    value |-> get_param_size(rnn_mode, dir_count, input_size, num_units, num_layers)]}
    \cup (IF params_size_int(rnn_mode, dir_count, input_size, num_units,
                             num_layers).ub
          THEN {Killed} ELSE {})

----------------------------------------------------------------------------
(* Shape resolution. *)

DirCount(mt) == IF mt.rnn_direction_mode = "rnn_bidirectional" THEN 2 ELSE 1

\* OutputShapeOf without the direction count in the last dimension.
OutputShapeOf_NoDir(Tx, seq_length, batch_size, dir_count, num_units) ==
  IF Len(Tx) = 2
  THEN <<batch_size, num_units>>
  ELSE <<seq_length, batch_size, num_units>>

\* output layout: T x N x (dir_count * num_units)
OutputShapeOf(Tx, seq_length, batch_size, dir_count, num_units) ==
  IF Len(Tx) = 2
  THEN <<batch_size, dir_count * num_units>>
  ELSE <<seq_length, batch_size, dir_count * num_units>>

\* The shape fields ExtractForwardInput writes into model_shapes.
ResolveShapes(mt, Tx, Thx) ==
  LET seq_length == IF Len(Tx) = 2 THEN 1 ELSE Tx[1]
      batch_size == IF Len(Tx) = 2 THEN Tx[1] ELSE Tx[2]
      input_size == IF Len(Tx) = 2 THEN Tx[2] ELSE Tx[3]
      input_shape == IF Len(Tx) = 2 THEN <<1, batch_size, input_size>> ELSE Tx
      dir_count == DirCount(mt)
      num_layers == IF Len(Thx) = 2 THEN 1 ELSE Thx[1] \div dir_count
      num_units == IF Len(Thx) = 2 THEN Thx[2] ELSE Thx[3]
      hidden_state_shape ==
        IF Len(Thx) = 2
        THEN <<batch_size, num_units>>
        ELSE <<dir_count * num_layers, batch_size, num_units>>
      output_shape ==
        OutputShapeOf(Tx, seq_length, batch_size, dir_count, num_units)
  IN  [num_layers |-> num_layers, input_size |-> input_size,
       num_units |-> num_units, seq_length |-> seq_length,
       batch_size |-> batch_size, dir_count |-> dir_count,
       input_shape |-> input_shape, output_shape |-> output_shape,
       hidden_state_shape |-> hidden_state_shape]

\* CellStateCheck comparing the ranks of the two tensors only.
CellStateCheck_RankOnly(mt, Thx, Tcx) ==
  IF HasInputC(mt) /\ Len(Thx) # Len(Tcx)
  THEN [code |-> "InvalidArgument",
        text |-> "input_h and input_c must have the same shape: ",
        shapes |-> <<Thx, Tcx>>]
  ELSE OK

\* The check of input_c against input_h in ExtractForwardInput.
CellStateCheck(mt, Thx, Tcx) ==
  IF HasInputC(mt) /\ Thx # Tcx
  THEN [code |-> "InvalidArgument",
        text |-> "input_h and input_c must have the same shape: ",
        shapes |-> <<Thx, Tcx>>]
  ELSE OK

\* The status ExtractForwardInput returns and the model_shapes it leaves.
ExtractForwardInput(mt, in) ==
  [status |-> CellStateCheck(mt, in["input_h"], in["input_c"]),
   model_shapes |-> ResolveShapes(mt, in["input"], in["input_h"])]

----------------------------------------------------------------------------
(* The shape function of the MkldnnRNNBackprop op. *)

BackpropShapeFn(in) ==
  (0 :> in["input"]) @@ (1 :> in["input_h"]) @@ (2 :> in["input_c"])
    @@ (3 :> in["params"])

----------------------------------------------------------------------------
(* The shape function of the MkldnnRNN op. *)

\* c->UnknownShape()
UnknownShape == [rank |-> "unknown"]

\* InferenceContext::Dim(s, idx), idx counted from 0.  An index that is not
\* below the rank reads outside the vector of dimensions, which is undefined:
\* the process is killed, or some storage is read as a dimension.
Dim(s, idx) ==
  IF idx < Len(s)
  THEN {[code |-> "OK", dim |-> s[idx + 1]]}
  ELSE {Killed} \cup {[code |-> "OK", dim |-> junk] : junk \in {0}}

\* The outcomes of the shape function for the attributes direction and
\* rnn_mode of the node and the shapes of its inputs: the shapes set for the
\* four outputs, or the process killed.
ForwardShapeFn(direction, rnn_mode, in) ==
  LET input_shape == in["input"]
      input_h_shape == in["input_h"]
      dir_count == IF direction = "bidirectional" THEN 2 ELSE 1
      output_h_shape == input_h_shape
      output_c_shape == IF rnn_mode = "lstm" THEN output_h_shape ELSE Empty
      Set(output_shape) ==
        [code |-> "OK",
         outputs |-> (0 :> output_shape) @@ (1 :> output_h_shape)
                       @@ (2 :> output_c_shape) @@ (3 :> UnknownShape)]
  IN  IF Len(input_shape) = 3
      THEN {IF num_units.code = "OK"
            THEN Set(<<input_shape[1], input_shape[2], num_units.dim * dir_count>>)
            ELSE Killed : num_units \in Dim(input_h_shape, 2)}
      ELSE {IF num_units.code = "OK"
            THEN Set(<<input_shape[1], num_units.dim * dir_count>>)
            ELSE Killed : num_units \in Dim(input_h_shape, 1)}

----------------------------------------------------------------------------
(* The tensors a call may be given. *)

InputShapes ==
  {<<b, i>> : b \in 1..MaxBatch, i \in 1..MaxInputSize}
    \cup {<<s, b, i>> : s \in 1..MaxSeq, b \in 1..MaxBatch, i \in 1..MaxInputSize}
    \cup {<<8, 6>>}

HiddenShapes ==
  {<<b, u>> : b \in 1..MaxBatch, u \in 1..MaxUnits}
    \cup {<<d, b, u>> : d \in 1..MaxLead, b \in 1..MaxBatch, u \in 1..MaxUnits}
    \cup {<<8, 10>>, <<6, 8, 10>>, <<5, 8, 10>>}

\* A shape and shapes that differ from it in one dimension or in rank.
Variants(shape) ==
  {shape, Tail(shape), <<1>> \o shape}
    \cup {[shape EXCEPT ![k] = @ + 1] : k \in DOMAIN shape}

\* input_c: any of the variants for a model with a cell state; for the other
\* models, which ignore it, a tensor like input_h or a scalar.
CellShapes(mt, Thx) ==
  IF HasInputC(mt) THEN Variants(Thx) \cup {Empty} ELSE {Thx, Empty}

ParamsShapes(n) == {<<m>> : m \in {n - 1, n, n + 1} \cap Nat}

\* The length of the reserve space the primitive descriptor asks for
\* (workspace_primitive_desc().get_size() / sizeof(T)): the library's answer.
WorkspaceSizes == 0..MaxWorkspace

----------------------------------------------------------------------------
(* Construction. *)

RnnModeAttrs == {"rnn_relu", "rnn_tanh", "lstm", "gru", "other"}

InputModeAttrs == {"linear_input", "skip_input", "auto_select", "other"}

DirectionAttrs == {"unidirectional", "bidirectional", "other"}

InvalidAttr(text, str) == [code |-> "InvalidArgument", text |-> text, arg |-> str]

ParseRNNMode(str) ==
  IF str = "rnn_relu" THEN [status |-> OK, value |-> "rnn_relu"]
  ELSE IF str = "rnn_tanh" THEN [status |-> OK, value |-> "rnn_tanh"]
  ELSE IF str = "lstm" THEN [status |-> OK, value |-> "rnn_lstm"]
  ELSE IF str = "gru" THEN [status |-> OK, value |-> "rnn_gru"]
  ELSE [status |-> InvalidAttr("Invalid RNN mode: ", str)]

\* ParseRNNInputMode resolving auto_select to the skip mode.
ParseRNNInputMode_AutoSkip(str) ==
  IF str = "linear_input" THEN [status |-> OK, value |-> "rnn_linear_input"]
  ELSE IF str = "skip_input" THEN [status |-> OK, value |-> "rnn_skip_input"]
  ELSE IF str = "auto_select" THEN [status |-> OK, value |-> "rnn_skip_input"]
  ELSE [status |-> InvalidAttr("Invalid RNN input mode: ", str)]

ParseRNNInputMode(str) ==
  IF str = "linear_input" THEN [status |-> OK, value |-> "rnn_linear_input"]
  ELSE IF str = "skip_input" THEN [status |-> OK, value |-> "rnn_skip_input"]
  ELSE IF str = "auto_select" THEN [status |-> OK, value |-> "rnn_linear_input"]
  ELSE [status |-> InvalidAttr("Invalid RNN input mode: ", str)]

ParseRNNDirectionMode(str) ==
  IF str = "unidirectional" THEN [status |-> OK, value |-> "rnn_unidirectional"]
  ELSE IF str = "bidirectional" THEN [status |-> OK, value |-> "rnn_bidirectional"]
  ELSE [status |-> InvalidAttr("Invalid RNN direction mode: ", str)]

\* model_types_ before the constructor has written it.
Indeterminate ==
  [rnn_mode |-> "indeterminate", rnn_input_mode |-> "indeterminate",
   rnn_direction_mode |-> "indeterminate"]

NoPrimDesc == [prop_kind |-> "none"]

\* The state local to a Compute call, before the call.
Fresh ==
  /\ inputs = Empty
  /\ model_shapes = Empty
  /\ outputs = Empty
  /\ status = OK
  /\ held = {}
  /\ total_w = -1
  /\ invoked = 0
  /\ params_size = -1
  /\ log = {}
  /\ descs = Empty
  /\ views = Empty
  /\ fwd_desc = NoPrimDesc
  /\ zeroed = 0
  /\ calls = Empty

Idle ==
  /\ pc = "idle"
  /\ phases = <<"Configured">>
  /\ Fresh

\* The kernel is about to be constructed: the OpKernelConstruction holds the
\* attributes of its node.
ConstructInit ==
  /\ kernel \in Kernels
  /\ attrs \in [rnn_mode : RnnModeAttrs, input_mode : InputModeAttrs,
                direction : DirectionAttrs]
  /\ is_training \in (IF kernel = "MkldnnRNN" THEN BOOLEAN ELSE {TRUE})
  /\ model_types = Indeterminate
  /\ pc = "construct"
  /\ phases = <<>>
  /\ Fresh

\* The kernel has been constructed and the OpKernelConstruction is gone.
Init ==
  /\ kernel \in Kernels
  /\ attrs = Empty
  /\ model_types \in [rnn_mode : RnnModes, rnn_input_mode : InputModes,
                      rnn_direction_mode : Directions]
  /\ is_training \in (IF kernel = "MkldnnRNN" THEN BOOLEAN ELSE {TRUE})
  /\ Idle

Attrs == <<kernel, attrs, model_types, is_training>>

Built == <<descs, views, fwd_desc, zeroed>>

\* MkldnnRNNKernelCommon's constructor: each OP_REQUIRES_OK that fails
\* returns and leaves the later fields of model_types_ unwritten.
Construct ==
  /\ pc = "construct"
  /\ LET m == ParseRNNMode(attrs.rnn_mode)
         i == ParseRNNInputMode(attrs.input_mode)
         d == ParseRNNDirectionMode(attrs.direction)
     IN  IF m.status.code # "OK"
         THEN /\ model_types' = model_types
              /\ status' = m.status
              /\ pc' = "failed"
              /\ phases' = phases
         ELSE IF i.status.code # "OK"
         THEN /\ model_types' = [model_types EXCEPT !.rnn_mode = m.value]
              /\ status' = i.status
              /\ pc' = "failed"
              /\ phases' = phases
         ELSE IF d.status.code # "OK"
         THEN /\ model_types' = [model_types EXCEPT !.rnn_mode = m.value,
                                                    !.rnn_input_mode = i.value]
              /\ status' = d.status
              /\ pc' = "failed"
              /\ phases' = phases
         ELSE /\ model_types' = [rnn_mode |-> m.value,
                                 rnn_input_mode |-> i.value,
                                 rnn_direction_mode |-> d.value]
              /\ status' = status
              /\ pc' = "constructed"
              /\ phases' = <<"Configured">>
  /\ UNCHANGED <<kernel, attrs, is_training, inputs, model_shapes, outputs,
                 held, total_w, invoked, params_size, log, Built, calls>>

\* The constructor has returned with an OK status: the OpKernelConstruction
\* is destroyed and the kernel waits for its first Compute call.
Constructed ==
  /\ pc = "constructed"
  /\ attrs' = Empty
  /\ pc' = "idle"
  /\ UNCHANGED <<kernel, model_types, is_training, inputs, model_shapes, outputs,
                 status, held, total_w, invoked, params_size, log, phases, Built,
                 calls>>

ConstructNext ==
  \/ Construct
  \/ Constructed

SpecConstruct == ConstructInit /\ [][ConstructNext]_vars

\* allocate_output for the listed <<index, shape>> pairs in order; any of the
\* allocations may fail, which leaves the earlier ones allocated.
Allocated(list, n) ==
  [i \in {list[k][1] : k \in 1..n} |->
     LET k == CHOOSE j \in 1..n : list[j][1] = i IN list[k][2]]

ResourceExhausted == [code |-> "ResourceExhausted"]

\* pipeline.push_back(l); s.submit(pipeline).wait(), submitting twice.
Submit_Twice(count) == count + 2

\* pipeline.push_back(l); s.submit(pipeline).wait()
Submit(count) == count + 1

----------------------------------------------------------------------------
(* MkldnnRNNParamsSizeOp::Compute *)

SizeArgs == <<"num_layers", "num_units", "input_size">>

\* The shapes of the tensors the size query may be given: a scalar, and
\* vectors of one and of two elements.
ArgShapes == {Empty, <<1>>, <<2>>}

IsScalar(shape) == Len(shape) = 0

NotScalarLine(name) ==
  CASE name = "num_layers" -> "num_layers is not a scalar"
    [] name = "num_units" -> "num_units is not a scalar"
    [] name = "input_size" -> "input_size is not a scalar"

\* Each argument is fetched, tested with IsScalar (a failed test logs a line)
\* and read with scalar<int>(), which aborts the process unless the tensor has
\* exactly one element.  The values of the three arguments are drawn from the
\* given sets.
ParamsSizeCall(layers, units, sizes) ==
  /\ kernel = "MkldnnRNNParamsSize"
  /\ pc = "idle"
  /\ \E shape \in [{SizeArgs[j] : j \in 1..3} -> ArgShapes],
        num_layers \in layers, num_units \in units,
        input_size \in sizes, alloc_ok \in BOOLEAN :
       LET value == ("num_layers" :> num_layers) @@ ("num_units" :> num_units)
                      @@ ("input_size" :> input_size)
           read == IF NumElements(shape[SizeArgs[1]]) # 1 THEN 0
                   ELSE IF NumElements(shape[SizeArgs[2]]) # 1 THEN 1
                   ELSE IF NumElements(shape[SizeArgs[3]]) # 1 THEN 2
                   ELSE 3
           tested == {SizeArgs[j] : j \in 1..(IF read < 3 THEN read + 1 ELSE 3)}
           dir_count ==
             IF model_types.rnn_direction_mode = "rnn_unidirectional" THEN 1 ELSE 2
       IN  /\ log' = {NotScalarLine(a) : a \in {b \in tested : ~IsScalar(shape[b])}}
           /\ inputs' = [a \in {SizeArgs[j] : j \in 1..read} |-> value[a]]
           /\ IF read < 3
              THEN /\ outputs' = Empty
                   /\ params_size' = -1
                   /\ status' = Killed
                   /\ pc' = "killed"
              ELSE \E size \in get_param_size_outcomes(model_types.rnn_mode, dir_count,
                                                      input_size, num_units, num_layers) :
                   IF size.code = "Killed"
                   THEN /\ outputs' = Empty
                        /\ params_size' = -1
                        /\ status' = Killed
                        /\ pc' = "killed"
                   ELSE IF alloc_ok
                   THEN /\ outputs' = (0 :> <<1>>)
                        /\ params_size' = size.value
                        /\ status' = OK
                        /\ pc' = "done"
                   ELSE /\ outputs' = Empty
                        /\ params_size' = -1
                        /\ status' = ResourceExhausted
                        /\ pc' = "done"
  /\ UNCHANGED <<Attrs, calls, model_shapes, held, total_w, invoked, phases, Built>>

ParamsSizeCompute ==
  ParamsSizeCall(1..MaxLayersArg, 0..MaxSizeArg, 0..MaxSizeArg)

----------------------------------------------------------------------------
(* MkldnnRNNForwardOp::Compute *)

\* The call starts: the context holds the op's four inputs, and
\* ExtractForwardInput resolves the shapes.
ExtractStep(next) ==
  /\ pc = "idle"
  /\ \E Tx \in InputShapes, Thx \in HiddenShapes :
       \E Tcx \in CellShapes(model_types, Thx) :
         LET ms == ResolveShapes(model_types, Tx, Thx) IN
         \E Tw \in ParamsShapes(get_param_size(model_types.rnn_mode, ms.dir_count,
                                  ms.input_size, ms.num_units, ms.num_layers)) :
           LET in == ("input" :> Tx) @@ ("input_h" :> Thx) @@ ("input_c" :> Tcx)
                       @@ ("params" :> Tw)
               r == ExtractForwardInput(model_types, in)
           IN  /\ inputs' = in
               /\ model_shapes' = r.model_shapes
               /\ status' = r.status
               /\ pc' = IF r.status = OK THEN next ELSE "done"
               /\ phases' = IF r.status = OK
                            THEN Append(phases, "ShapesResolved") ELSE phases
  /\ UNCHANGED <<Attrs, calls, outputs, held, total_w, invoked, params_size, log, Built>>

ForwardExtract ==
  /\ kernel = "MkldnnRNN"
  /\ ExtractStep("allocate")

\* ForwardOutputs with the reserve-space placeholder allocated in training
\* too and output_c allocated as the hidden state for every model.
ForwardOutputs_NoModeTest ==
  <<<<0, model_shapes.output_shape>>, <<1, model_shapes.hidden_state_shape>>,
    <<2, model_shapes.hidden_state_shape>>, <<3, Empty>>>>

ForwardOutputs ==
  <<<<0, model_shapes.output_shape>>, <<1, model_shapes.hidden_state_shape>>,
    <<2, IF HasInputC(model_types) THEN model_shapes.hidden_state_shape ELSE Empty>>>>
    \o (IF ~is_training THEN <<<<3, Empty>>>> ELSE <<>>)

AllocateStep(list, next) ==
  /\ pc = "allocate"
  /\ \E n \in 0..Len(list) :
       /\ outputs' = Allocated(list, n)
       /\ IF n = Len(list)
          THEN /\ pc' = next
               /\ status' = status
               /\ phases' = Append(phases, "BuffersAllocated")
          ELSE /\ pc' = "done"
               /\ status' = ResourceExhausted
               /\ phases' = phases
  /\ UNCHANGED <<Attrs, calls, inputs, model_shapes, held, total_w, invoked, params_size,
                 log, Built>>

ForwardAllocate ==
  /\ kernel = "MkldnnRNN"
  /\ AllocateStep(ForwardOutputs, "build")

ForwardTransients ==
  {"eng", "x_desc", "hx_desc", "y_desc", "weights_desc", "x", "hx", "y", "hy",
   "weights", "rnn_fwd_prim_desc"}
    \cup (IF HasInputC(model_types) THEN {"cx", "cy"} ELSE {})

TotalW ==
  get_param_size(model_types.rnn_mode, model_shapes.dir_count,
                 model_shapes.input_size, model_shapes.num_units,
                 model_shapes.num_layers)

\* The ways the computation of total_w can end.
TotalWOutcomes ==
  get_param_size_outcomes(model_types.rnn_mode, model_shapes.dir_count,
                          model_shapes.input_size, model_shapes.num_units,
                          model_shapes.num_layers)

\* The dimensions of the four memory::desc objects of the forward kernel.
ForwardDescs(ms, tw) ==
  ("x_desc" :> <<ms.seq_length, ms.batch_size, ms.input_size>>)
    @@ ("hx_desc" :> <<ms.num_layers, ms.batch_size, ms.num_units>>)
    @@ ("y_desc" :> <<ms.seq_length, ms.batch_size, ms.num_units * ms.dir_count>>)
    @@ ("weights_desc" :> <<tw>>)

View(desc, tensor) == [desc |-> desc, tensor |-> tensor]

\* The memory objects the forward kernel builds from a memory::desc: the
\* descriptor each uses and the shape of the tensor whose buffer it is laid
\* over.
ForwardViews(mt, in, out) ==
  ("x" :> View("x_desc", in["input"]))
    @@ ("hx" :> View("hx_desc", in["input_h"]))
    @@ ("y" :> View("y_desc", out[0]))
    @@ ("hy" :> View("hx_desc", out[1]))
    @@ ("weights" :> View("weights_desc", in["params"]))
    @@ (IF HasInputC(mt)
        THEN ("cx" :> View("hx_desc", in["input_c"]))
               @@ ("cy" :> View("hx_desc", out[2]))
        ELSE Empty)

\* The arguments of the rnn_forward::desc the forward kernel builds.
ForwardPrimDesc(mt, ms, training, d) ==
  [prop_kind |-> IF training THEN "forward_training" ELSE "forward_inference",
   rnn_mode |-> mt.rnn_mode,
   direction |-> mt.rnn_direction_mode,
   input_mode |-> mt.rnn_input_mode,
   num_units |-> ms.num_units,
   num_layers |-> ms.num_layers,
   seq_length |-> ms.seq_length,
   state_outputs |-> 1,
   x_desc |-> d["x_desc"],
   hx_desc |-> d["hx_desc"],
   y_desc |-> d["y_desc"],
   weights_desc |-> d["weights_desc"]]

\* eng is created before total_w is computed; a trap in get_param_size ends
\* the process there.
ForwardBuild ==
  /\ kernel = "MkldnnRNN"
  /\ pc = "build"
  /\ \E r \in TotalWOutcomes :
       IF r.code = "Killed"
       THEN /\ held' = {"eng"}
            /\ status' = Killed
            /\ pc' = "killed"
            /\ UNCHANGED <<total_w, descs, views, fwd_desc, phases>>
       ELSE /\ held' = ForwardTransients
            /\ total_w' = r.value
            /\ descs' = ForwardDescs(model_shapes, r.value)
            /\ views' = ForwardViews(model_types, inputs, outputs)
            /\ fwd_desc' = ForwardPrimDesc(model_types, model_shapes, is_training,
                                           ForwardDescs(model_shapes, r.value))
            /\ status' = status
            /\ pc' = "execute"
            /\ phases' = Append(phases, "PrimitiveBuilt")
  /\ UNCHANGED <<Attrs, calls, inputs, model_shapes, outputs, invoked, params_size,
                 log, zeroed>>

ForwardExecute ==
  /\ kernel = "MkldnnRNN"
  /\ pc = "execute"
  /\ IF is_training
     THEN \E workspace_size \in WorkspaceSizes, alloc_ok \in BOOLEAN :
            IF alloc_ok
            THEN /\ outputs' = outputs @@ (3 :> <<workspace_size>>)
                 /\ invoked' = Submit(invoked)
                 /\ pc' = "release"
                 /\ status' = status
                 /\ phases' = Append(phases, "Executed")
            ELSE /\ status' = ResourceExhausted
                 /\ pc' = "done"
                 /\ UNCHANGED <<outputs, invoked, phases>>
     ELSE /\ invoked' = Submit(invoked)
          /\ pc' = "release"
          /\ phases' = Append(phases, "Executed")
          /\ UNCHANGED <<outputs, status>>
  /\ UNCHANGED <<Attrs, calls, inputs, model_shapes, held, total_w, params_size, log, Built>>

ForwardDeleted ==
  {"cx", "cy", "x", "hx", "y", "hy", "weights", "x_desc", "hx_desc", "y_desc",
   "weights_desc", "rnn_fwd_prim_desc"}

ForwardRelease ==
  /\ kernel = "MkldnnRNN"
  /\ pc = "release"
  /\ held' = held \ ForwardDeleted
  /\ pc' = "done"
  /\ phases' = Append(phases, "Released")
  /\ UNCHANGED <<Attrs, calls, inputs, model_shapes, outputs, status, total_w, invoked,
                 params_size, log, Built>>

----------------------------------------------------------------------------
(* MkldnnRNNBackwardOp::Compute *)

BackwardExtract ==
  /\ kernel = "MkldnnRNNBackprop"
  /\ ExtractStep("validate")

\* The statuses the failed check of output_backprop can end in.  The message
\* is built from Thx->shape() and Tcx->shape(); Tcx is the null pointer unless
\* the model has input_c, and then reading through it is undefined: the
\* process is killed, or some storage is read as a shape.
OutputBackpropFailure(mt, in) ==
  IF HasInputC(mt)
  THEN {[code |-> "InvalidArgument",
         text |-> "h and c must have the same shape: ",
         shapes |-> <<in["input_h"], in["input_c"]>>]}
  ELSE {[code |-> "Killed"]}
         \cup {[code |-> "InvalidArgument",
                text |-> "h and c must have the same shape: ",
                shapes |-> <<in["input_h"], junk>>] : junk \in {Empty}}

InvalidShape(text, Tgot, expected) ==
  [code |-> "InvalidArgument", text |-> text, shapes |-> <<Tgot, expected>>]

\* The gradient inputs are fetched one at a time, each checked before the next
\* is fetched.
BackwardValidate ==
  /\ kernel = "MkldnnRNNBackprop"
  /\ pc = "validate"
  /\ \E Tworkspace \in {<<n>> : n \in WorkspaceSizes},
        Tdy \in Variants(model_shapes.output_shape) :
       LET in1 == inputs @@ ("reserve_space" :> Tworkspace)
                    @@ ("output_backprop" :> Tdy)
       IN
       IF model_shapes.output_shape # Tdy
       THEN \E st \in OutputBackpropFailure(model_types, inputs) :
              /\ inputs' = in1
              /\ status' = st
              /\ pc' = IF st.code = "Killed" THEN "killed" ELSE "done"
              /\ phases' = phases
       ELSE
       \E Tdhy \in Variants(model_shapes.hidden_state_shape) :
         LET in2 == in1 @@ ("output_h_backprop" :> Tdhy) IN
         IF Tdhy # model_shapes.hidden_state_shape
         THEN /\ inputs' = in2
              /\ status' = InvalidShape("Invalid dhy shape: ", Tdhy,
                                        model_shapes.hidden_state_shape)
              /\ pc' = "done"
              /\ phases' = phases
         ELSE
         IF HasInputC(model_types)
         THEN \E Tdcy \in Variants(model_shapes.hidden_state_shape) :
                /\ inputs' = in2 @@ ("output_c_backprop" :> Tdcy)
                /\ IF Tdcy # model_shapes.hidden_state_shape
                   THEN /\ status' = InvalidShape("Invalid dcy shape: ", Tdcy,
                                                  model_shapes.hidden_state_shape)
                        /\ pc' = "done"
                        /\ phases' = phases
                   ELSE /\ status' = status
                        /\ pc' = "allocate"
                        /\ phases' = Append(phases, "GradientsValidated")
         ELSE /\ inputs' = in2
              /\ status' = status
              /\ pc' = "allocate"
              /\ phases' = Append(phases, "GradientsValidated")
  /\ UNCHANGED <<Attrs, calls, model_shapes, outputs, held, total_w, invoked, params_size,
                 log, Built>>

BackwardOutputs ==
  <<<<0, inputs["input"]>>, <<1, inputs["input_h"]>>,
    <<2, IF HasInputC(model_types) THEN inputs["input_c"] ELSE Empty>>,
    <<3, inputs["params"]>>>>

BackwardAllocate ==
  /\ kernel = "MkldnnRNNBackprop"
  /\ AllocateStep(BackwardOutputs, "build")

BackwardTransients ==
  {"eng", "x_desc", "hx_desc", "y_desc", "weights_desc", "x", "hx", "weights",
   "dx", "dhx", "dy", "dhy", "dweights", "rnn_fwd_prim_desc",
   "rnn_bwd_prim_desc", "workspace"}

\* The dimensions of the four memory::desc objects of the backward kernel.
BackwardDescs(ms, tw) ==
  ("x_desc" :> <<ms.seq_length, ms.batch_size, ms.input_size>>)
    @@ ("hx_desc" :> <<ms.num_layers, ms.batch_size, ms.num_units>>)
    @@ ("y_desc" :> <<ms.seq_length, ms.batch_size, ms.num_units * ms.dir_count>>)
    @@ ("weights_desc" :> <<tw>>)

\* The memory objects the backward kernel builds from a memory::desc before
\* the branch on HasInputC.
BackwardViews(in, out) ==
  ("x" :> View("x_desc", in["input"]))
    @@ ("hx" :> View("hx_desc", in["input_h"]))
    @@ ("weights" :> View("weights_desc", in["params"]))
    @@ ("dx" :> View("x_desc", out[0]))
    @@ ("dhx" :> View("hx_desc", out[1]))
    @@ ("dy" :> View("y_desc", in["output_backprop"]))
    @@ ("dhy" :> View("hx_desc", in["output_h_backprop"]))
    @@ ("dweights" :> View("weights_desc", out[3]))

\* The memory objects the backward kernel adds for a model with a cell state.
BackwardCellViews(in, out) ==
  ("cx" :> View("hx_desc", in["input_c"]))
    @@ ("dcx" :> View("hx_desc", out[2]))
    @@ ("dcy" :> View("hx_desc", in["output_c_backprop"]))

\* BackwardFwdPrimDesc asking for the inference kind.
BackwardFwdPrimDesc_Inference(mt, ms, d) ==
  [prop_kind |-> "forward_inference",
   rnn_mode |-> mt.rnn_mode,
   direction |-> mt.rnn_direction_mode,
   input_mode |-> mt.rnn_input_mode,
   num_units |-> ms.num_units,
   num_layers |-> ms.num_layers,
   seq_length |-> ms.seq_length,
   state_outputs |-> 1,
   x_desc |-> d["x_desc"],
   hx_desc |-> d["hx_desc"],
   y_desc |-> d["y_desc"],
   weights_desc |-> d["weights_desc"]]

\* The arguments of the rnn_forward::desc the backward kernel builds, whose
\* workspace_primitive_desc() it lays over reserve_space.
BackwardFwdPrimDesc(mt, ms, d) ==
  [prop_kind |-> "forward_training",
   rnn_mode |-> mt.rnn_mode,
   direction |-> mt.rnn_direction_mode,
   input_mode |-> mt.rnn_input_mode,
   num_units |-> ms.num_units,
   num_layers |-> ms.num_layers,
   seq_length |-> ms.seq_length,
   state_outputs |-> 1,
   x_desc |-> d["x_desc"],
   hx_desc |-> d["hx_desc"],
   y_desc |-> d["y_desc"],
   weights_desc |-> d["weights_desc"]]

\* ClearedElements taking the length from total_w.
ClearedElements_TotalW == TotalW

\* The number of elements the memset over Tdweights clears.
ClearedElements == NumElements(inputs["params"])

BackwardBuild ==
  /\ kernel = "MkldnnRNNBackprop"
  /\ pc = "build"
  /\ \E r \in TotalWOutcomes :
       IF r.code = "Killed"
       THEN /\ held' = {"eng"}
            /\ status' = Killed
            /\ pc' = "killed"
            /\ UNCHANGED <<total_w, descs, zeroed, views, fwd_desc, phases>>
       ELSE /\ held' = BackwardTransients
            /\ total_w' = r.value
            /\ descs' = BackwardDescs(model_shapes, r.value)
            /\ zeroed' = ClearedElements
            /\ views' = BackwardViews(inputs, outputs)
            /\ fwd_desc' = BackwardFwdPrimDesc(model_types, model_shapes,
                                               BackwardDescs(model_shapes, r.value))
            /\ status' = status
            /\ pc' = "execute"
            /\ phases' = Append(phases, "PrimitiveBuilt")
  /\ UNCHANGED <<Attrs, calls, inputs, model_shapes, outputs, invoked, params_size,
                 log>>

BackwardExecute ==
  /\ kernel = "MkldnnRNNBackprop"
  /\ pc = "execute"
  /\ held' = held \cup (IF HasInputC(model_types) THEN {"cx", "dcx", "dcy"} ELSE {})
  /\ views' = views @@ (IF HasInputC(model_types)
                        THEN BackwardCellViews(inputs, outputs) ELSE Empty)
  /\ invoked' = Submit(invoked)
  /\ pc' = "release"
  /\ phases' = Append(phases, "Executed")
  /\ UNCHANGED <<Attrs, calls, inputs, model_shapes, outputs, status, total_w, params_size,
                 log, descs, fwd_desc, zeroed>>

BackwardDeleted ==
  {"cx", "dcx", "dcy", "x", "hx", "dy", "dhy", "dx", "dhx", "weights",
   "workspace", "dweights", "x_desc", "hx_desc", "y_desc", "weights_desc",
   "rnn_fwd_prim_desc", "rnn_bwd_prim_desc"}

BackwardRelease ==
  /\ kernel = "MkldnnRNNBackprop"
  /\ pc = "release"
  /\ held' = held \ BackwardDeleted
  /\ pc' = "done"
  /\ phases' = Append(phases, "Released")
  /\ UNCHANGED <<Attrs, calls, inputs, model_shapes, outputs, status, total_w, invoked,
                 params_size, log, Built>>

----------------------------------------------------------------------------
(* Compute has returned; the kernel instance takes its next call. *)

Return ==
  /\ pc = "done"
  /\ pc' = "idle"
  /\ phases' = <<"Configured">>
  /\ inputs' = Empty
  /\ model_shapes' = Empty
  /\ outputs' = Empty
  /\ status' = OK
  /\ held' = {}
  /\ total_w' = -1
  /\ invoked' = 0
  /\ params_size' = -1
  /\ log' = {}
  /\ descs' = Empty
  /\ views' = Empty
  /\ fwd_desc' = NoPrimDesc
  /\ zeroed' = 0
  /\ UNCHANGED <<Attrs, calls>>

Next ==
  \/ ParamsSizeCompute
  \/ ForwardExtract
  \/ ForwardAllocate
  \/ ForwardBuild
  \/ ForwardExecute
  \/ ForwardRelease
  \/ BackwardExtract
  \/ BackwardValidate
  \/ BackwardAllocate
  \/ BackwardBuild
  \/ BackwardExecute
  \/ BackwardRelease
  \/ Return

Spec == Init /\ [][Next]_vars

----------------------------------------------------------------------------
(* Compute calls running at once on one kernel instance.  Each call has its  *)
(* own OpKernelContext and its own locals; calls[t] holds those of the call  *)
(* thread t runs: its position, its inputs, its model_shapes, the outputs it *)
(* has allocated and its status.                                             *)

Threads == {"t1", "t2"}

IdleCall ==
  [pc |-> "idle", inputs |-> Empty, model_shapes |-> Empty, outputs |-> Empty,
   status |-> OK]

\* The inputs a call may be given: a rank-2 and a rank-3 input with a hidden
\* state of their rank, an input_c like input_h or a scalar, params of the
\* length get_param_size gives, and for Backward an output_backprop of
\* output_shape or a scalar.
CallInputs(k, mt) ==
  UNION {UNION {
     LET ms == ResolveShapes(mt, pair[1], pair[2])
         forward ==
           ("input" :> pair[1]) @@ ("input_h" :> pair[2]) @@ ("input_c" :> Tcx)
             @@ ("params" :> <<get_param_size(mt.rnn_mode, ms.dir_count,
                                 ms.input_size, ms.num_units, ms.num_layers)>>)
     IN  IF k = "MkldnnRNN"
         THEN {forward}
         ELSE {forward @@ ("reserve_space" :> <<1>>) @@ ("output_backprop" :> Tdy)
                 @@ ("output_h_backprop" :> ms.hidden_state_shape)
                 @@ ("output_c_backprop" :> ms.hidden_state_shape) :
               Tdy \in {ms.output_shape, Empty}} :
     Tcx \in {pair[2], Empty}} :
   pair \in {<<<<1, 1>>, <<1, 1>>>>, <<<<2, 2, 1>>, <<2, 2, 1>>>>}}

\* The outputs MkldnnRNNForwardOp::Compute allocates before the primitive is
\* built.
ForwardOutputsOf(mt, training, ms) ==
  <<<<0, ms.output_shape>>, <<1, ms.hidden_state_shape>>,
    <<2, IF HasInputC(mt) THEN ms.hidden_state_shape ELSE Empty>>>>
    \o (IF ~training THEN <<<<3, Empty>>>> ELSE <<>>)

\* The outputs MkldnnRNNBackwardOp::Compute allocates.
BackwardOutputsOf(mt, in) ==
  <<<<0, in["input"]>>, <<1, in["input_h"]>>,
    <<2, IF HasInputC(mt) THEN in["input_c"] ELSE Empty>>,
    <<3, in["params"]>>>>

\* The statuses the checks of the three gradient inputs can leave.
GradientCheck(mt, ms, in) ==
  IF ms.output_shape # in["output_backprop"]
  THEN OutputBackpropFailure(mt, in)
  ELSE IF in["output_h_backprop"] # ms.hidden_state_shape
  THEN {InvalidShape("Invalid dhy shape: ", in["output_h_backprop"],
                     ms.hidden_state_shape)}
  ELSE IF HasInputC(mt) /\ in["output_c_backprop"] # ms.hidden_state_shape
  THEN {InvalidShape("Invalid dcy shape: ", in["output_c_backprop"],
                     ms.hidden_state_shape)}
  ELSE {OK}

\* The call as ExtractForwardInput leaves it.
CallStart(k, mt, in) ==
  LET r == ExtractForwardInput(mt, in)
  IN  [pc |-> IF r.status # OK THEN "done"
              ELSE IF k = "MkldnnRNN" THEN "allocate" ELSE "validate",
       inputs |-> in, model_shapes |-> r.model_shapes, outputs |-> Empty,
       status |-> r.status]

\* The positions a running call can reach next from c.
CallStep(k, mt, training, c) ==
  IF c.pc = "validate"
  THEN {[c EXCEPT !.status = st,
                  !.pc = IF st.code = "OK" THEN "allocate"
                         ELSE IF st.code = "Killed" THEN "killed" ELSE "done"] :
        st \in GradientCheck(mt, c.model_shapes, c.inputs)}
  ELSE IF c.pc = "allocate"
  THEN LET list == IF k = "MkldnnRNN"
                   THEN ForwardOutputsOf(mt, training, c.model_shapes)
                   ELSE BackwardOutputsOf(mt, c.inputs)
       IN  {[c EXCEPT !.outputs = Allocated(list, n),
                      !.pc = IF n = Len(list) THEN "execute" ELSE "done",
                      !.status = IF n = Len(list) THEN c.status
                                 ELSE ResourceExhausted] : n \in 0..Len(list)}
  ELSE IF c.pc = "execute"
  THEN IF k = "MkldnnRNN" /\ training
       THEN {[c EXCEPT !.outputs = c.outputs @@ (3 :> <<workspace_size>>),
                       !.pc = "done"] : workspace_size \in WorkspaceSizes}
              \cup {[c EXCEPT !.status = ResourceExhausted, !.pc = "done"]}
       ELSE {[c EXCEPT !.pc = "done"]}
  ELSE {}

ConcurrentInit ==
  /\ kernel \in {"MkldnnRNN", "MkldnnRNNBackprop"}
  /\ attrs = Empty
  /\ model_types \in [rnn_mode : RnnModes, rnn_input_mode : InputModes,
                      rnn_direction_mode : Directions]
  /\ is_training \in (IF kernel = "MkldnnRNN" THEN BOOLEAN ELSE {TRUE})
  /\ pc = "idle"
  /\ phases = <<"Configured">>
  /\ inputs = Empty
  /\ model_shapes = Empty
  /\ outputs = Empty
  /\ status = OK
  /\ held = {}
  /\ total_w = -1
  /\ invoked = 0
  /\ params_size = -1
  /\ log = {}
  /\ descs = Empty
  /\ views = Empty
  /\ fwd_desc = NoPrimDesc
  /\ zeroed = 0
  /\ calls = [t \in Threads |-> IdleCall]

ProcessAlive == \A t \in Threads : calls[t].pc # "killed"

Sequential ==
  <<pc, phases, inputs, model_shapes, outputs, status, held, total_w, invoked,
    params_size, log, Built>>

\* A thread enters Compute with a call's inputs.
CallEnter ==
  /\ ProcessAlive
  /\ \E t \in Threads :
       /\ calls[t].pc = "idle"
       /\ \E in \in CallInputs(kernel, model_types) :
            calls' = [calls EXCEPT ![t] = CallStart(kernel, model_types, in)]
  /\ UNCHANGED <<Attrs, Sequential>>

\* A thread takes the next step of its call.  A step that aborts the process
\* ends every call that is running.
CallAdvance ==
  /\ ProcessAlive
  /\ \E t \in Threads :
       \E c \in CallStep(kernel, model_types, is_training, calls[t]) :
         calls' = IF c.pc = "killed"
                  THEN [u \in Threads |->
                          IF u = t THEN c ELSE [calls[u] EXCEPT !.pc = "killed"]]
                  ELSE [calls EXCEPT ![t] = c]
  /\ UNCHANGED <<Attrs, Sequential>>

\* Compute returns and the thread is free for another call.
CallReturn ==
  /\ ProcessAlive
  /\ \E t \in Threads :
       /\ calls[t].pc = "done"
       /\ calls' = [calls EXCEPT ![t] = IdleCall]
  /\ UNCHANGED <<Attrs, Sequential>>

ConcurrentNext ==
  \/ CallEnter
  \/ CallAdvance
  \/ CallReturn

SpecConcurrent == ConcurrentInit /\ [][ConcurrentNext]_vars

----------------------------------------------------------------------------
(* The size computation for models as large as their tensors allow: the    *)
(* size query is called with large arguments, and a Forward or Backward    *)
(* call on large tensors has come to the point where it computes total_w.  *)

BigUnits == 46340
BigInputSize == 65536

SizeLayers == 1..MaxLayersArg

SizeUnits == {1, BigUnits - 1, BigUnits}

SizeInputSizes == {1, BigInputSize}

\* The inputs of a call on a model of the given dimensions, with a batch of
\* one: a rank-2 input, a rank-3 input_h, the gradients of the shapes the
\* kernel expects.  No length of params is ever asked for.
SizeInputs(k, mt, num_layers, num_units, input_size) ==
  LET Tx == <<1, input_size>>
      Thx == <<DirCount(mt) * num_layers, 1, num_units>>
      ms == ResolveShapes(mt, Tx, Thx)
      fwd == ("input" :> Tx) @@ ("input_h" :> Thx)
               @@ ("input_c" :> IF HasInputC(mt) THEN Thx ELSE Empty)
               @@ ("params" :> <<1>>)
  IN  IF k = "MkldnnRNN" THEN fwd
      ELSE fwd @@ ("reserve_space" :> <<1>>)
               @@ ("output_backprop" :> ms.output_shape)
               @@ ("output_h_backprop" :> ms.hidden_state_shape)
               @@ (IF HasInputC(mt)
                   THEN ("output_c_backprop" :> ms.hidden_state_shape)
                   ELSE Empty)

\* The size query has not started; a Forward or Backward call has resolved
\* its shapes, checked its gradients and allocated its outputs.
SizeInit ==
  /\ kernel \in Kernels
  /\ attrs = Empty
  /\ model_types \in [rnn_mode : RnnModes, rnn_input_mode : InputModes,
                      rnn_direction_mode : Directions]
  /\ is_training \in (IF kernel = "MkldnnRNN" THEN BOOLEAN ELSE {TRUE})
  /\ IF kernel = "MkldnnRNNParamsSize"
     THEN Idle
     ELSE /\ \E num_layers \in SizeLayers, num_units \in SizeUnits,
                input_size \in SizeInputSizes :
               LET in == SizeInputs(kernel, model_types, num_layers, num_units,
                                    input_size)
                   ms == ResolveShapes(model_types, in["input"], in["input_h"])
                   list == IF kernel = "MkldnnRNN"
                           THEN ForwardOutputsOf(model_types, is_training, ms)
                           ELSE BackwardOutputsOf(model_types, in)
               IN  /\ inputs = in
                   /\ model_shapes = ms
                   /\ outputs = Allocated(list, Len(list))
          /\ pc = "build"
          /\ phases = IF kernel = "MkldnnRNN"
                      THEN <<"Configured", "ShapesResolved", "BuffersAllocated">>
                      ELSE <<"Configured", "ShapesResolved", "GradientsValidated",
                             "BuffersAllocated">>
          /\ status = OK
          /\ held = {}
          /\ total_w = -1
          /\ invoked = 0
          /\ params_size = -1
          /\ log = {}
          /\ descs = Empty
          /\ views = Empty
          /\ fwd_desc = NoPrimDesc
          /\ zeroed = 0
          /\ calls = Empty

SizeQuery == ParamsSizeCall(SizeLayers, SizeUnits, SizeInputSizes)

SizeNext ==
  \/ SizeQuery
  \/ ForwardBuild
  \/ BackwardBuild

SpecSize == SizeInit /\ [][SizeNext]_vars

----------------------------------------------------------------------------
(* Claims. *)

RnnKernels == {"MkldnnRNN", "MkldnnRNNBackprop"}

Fetched(name) == name \in DOMAIN inputs

\* A Compute call is running or has ended.
InCall == pc \notin {"construct", "constructed", "failed", "idle"}

gate_multiplier(kind) ==
  CASE kind \in {"rnn_relu", "rnn_tanh"} -> 1
    [] kind = "rnn_lstm" -> 4
    [] kind = "rnn_gru" -> 3

SizeFormula(kind, dir_count, input_size, num_units, num_layers) ==
  (gate_multiplier(kind) * num_units * (input_size + num_units + 2)
     + gate_multiplier(kind) * (num_layers - 1) * num_units * (2 * num_units + 2))
    * dir_count

\* C1: the parameter length get_param_size returns, as the size query writes
\* it and as Forward and Backward use it for total_w, is
\* (g*num_units*(input_size+num_units+2)
\*    + g*(num_layers-1)*num_units*(2*num_units+2)) * dir_count
\* with g = 1 for relu/tanh, 4 for LSTM, 3 for GRU; LSTM, unidirectional,
\* 2 layers, 4 units, input size 3 gives 304 and GRU, bidirectional, 1 layer,
\* 5 units, input size 2 gives 270.
C1_ParamSizeFormula ==
  /\ (kernel = "MkldnnRNNParamsSize" /\ pc = "done" /\ status.code = "OK") =>
       LET dir == IF model_types.rnn_direction_mode = "rnn_bidirectional" THEN 2 ELSE 1
       IN  /\ params_size = SizeFormula(model_types.rnn_mode, dir,
                              inputs["input_size"], inputs["num_units"],
                              inputs["num_layers"])
           /\ (/\ model_types.rnn_mode = "rnn_lstm" /\ dir = 1
               /\ inputs["num_layers"] = 2 /\ inputs["num_units"] = 4
               /\ inputs["input_size"] = 3) => params_size = 304
           /\ (/\ model_types.rnn_mode = "rnn_gru" /\ dir = 2
               /\ inputs["num_layers"] = 1 /\ inputs["num_units"] = 5
               /\ inputs["input_size"] = 2) => params_size = 270
  /\ (kernel \in RnnKernels /\ pc \in {"execute", "release"}) =>
       total_w = SizeFormula(model_types.rnn_mode, model_shapes.dir_count,
                   model_shapes.input_size, model_shapes.num_units,
                   model_shapes.num_layers)

\* C1 witness: the size query has answered 304 for the LSTM scenario.
C1_Witness ==
  /\ kernel = "MkldnnRNNParamsSize" /\ pc = "done" /\ status.code = "OK"
  /\ model_types.rnn_mode = "rnn_lstm"
  /\ model_types.rnn_direction_mode = "rnn_unidirectional"
  /\ inputs["num_layers"] = 2 /\ inputs["num_units"] = 4
  /\ inputs["input_size"] = 3
  /\ params_size = 304

\* C2: a call whose params tensor does not have get_param_size(...) elements
\* never reaches the primitive: whenever the primitive has been invoked, the
\* params tensor has exactly total_w elements.
C2_ParamsLengthRejected ==
  (kernel \in RnnKernels /\ invoked > 0) =>
    NumElements(inputs["params"]) = total_w

\* C3: the shapes ExtractForwardInput derives: a rank-2 input [d0,d1] gives
\* seq_length 1, batch_size d0, input_size d1, input_shape [1,d0,d1] and
\* output_shape [batch_size, dir_count*num_units]; a rank-3 input [d0,d1,d2]
\* gives seq_length d0, batch_size d1, input_size d2 and output_shape
\* [seq_length, batch_size, dir_count*num_units]; dir_count is 2 iff the
\* direction is bidirectional, else 1; num_units is the last dimension of
\* input_h.  Input [8,6] with hidden [8,10], unidirectional, gives
\* seq_length 1, num_layers 1 and output_shape [8,10].
C3_ShapesDerived ==
  (kernel \in RnnKernels /\ InCall) =>
    LET Tx == inputs["input"]
        Thx == inputs["input_h"]
        ms == model_shapes
        dir == IF model_types.rnn_direction_mode = "rnn_bidirectional" THEN 2 ELSE 1
        units == Thx[Len(Thx)]
    IN  /\ ms.dir_count = dir
        /\ ms.num_units = units
        /\ Len(Tx) = 2 =>
             /\ ms.seq_length = 1
             /\ ms.batch_size = Tx[1]
             /\ ms.input_size = Tx[2]
             /\ ms.input_shape = <<1, Tx[1], Tx[2]>>
             /\ ms.output_shape = <<Tx[1], dir * units>>
        /\ Len(Tx) = 3 =>
             /\ ms.seq_length = Tx[1]
             /\ ms.batch_size = Tx[2]
             /\ ms.input_size = Tx[3]
             /\ ms.output_shape = <<Tx[1], Tx[2], dir * units>>
        /\ (Tx = <<8, 6>> /\ Thx = <<8, 10>> /\ dir = 1) =>
             /\ ms.seq_length = 1
             /\ ms.num_layers = 1
             /\ ms.output_shape = <<8, 10>>

\* C3 witness: scenario C has been resolved for an LSTM model.
C3_Witness ==
  /\ kernel = "MkldnnRNN" /\ pc = "allocate"
  /\ model_types.rnn_mode = "rnn_lstm"
  /\ model_types.rnn_direction_mode = "rnn_unidirectional"
  /\ inputs["input"] = <<8, 6>> /\ inputs["input_h"] = <<8, 10>>
  /\ model_shapes.output_shape = <<8, 10>>

\* C4: for a rank-3 input_h with leading dimension d0: when d0 is a multiple
\* of dir_count, num_layers = d0/dir_count, num_units = dim2 and
\* hidden_state_shape = [dir_count*num_layers, batch_size, num_units]; when it
\* is not, shape resolution fails with a shape error.
C4_LeadingDimDivisible ==
  (kernel \in RnnKernels /\ InCall /\ Len(inputs["input_h"]) = 3) =>
    LET Thx == inputs["input_h"]
        ms == model_shapes
    IN  IF Thx[1] % ms.dir_count = 0
        THEN /\ ms.num_layers * ms.dir_count = Thx[1]
             /\ ms.num_units = Thx[3]
             /\ ms.hidden_state_shape =
                  <<ms.dir_count * ms.num_layers, ms.batch_size, ms.num_units>>
        ELSE pc = "done" /\ status.code = "InvalidArgument"

CellMessage == "input_h and input_c must have the same shape: "

\* C5: in an LSTM model, a Forward or Backward call whose input_c differs in
\* shape from input_h ends with InvalidArgument, with no output allocated, no
\* transient object created and the primitive not invoked; when the two
\* shapes are equal the call does not end with that error.
C5_CellShapeMismatchFails ==
  (kernel \in RnnKernels /\ InCall /\ model_types.rnn_mode = "rnn_lstm") =>
    IF inputs["input_c"] # inputs["input_h"]
    THEN /\ pc = "done"
         /\ status.code = "InvalidArgument"
         /\ status.text = CellMessage
         /\ DOMAIN outputs = {}
         /\ held = {}
         /\ invoked = 0
    ELSE status.code = "InvalidArgument" => status.text # CellMessage

\* C5 witness: a Backward call of an LSTM model has been rejected for an
\* input_c of input_h's rank that differs from it in one dimension.
C5_Witness ==
  /\ kernel = "MkldnnRNNBackprop" /\ pc = "done"
  /\ model_types.rnn_mode = "rnn_lstm"
  /\ Len(inputs["input_c"]) = Len(inputs["input_h"])
  /\ inputs["input_c"] # inputs["input_h"]
  /\ status.code = "InvalidArgument"

C7_OutputHShape ==
  (kernel = "MkldnnRNN" /\ pc = "done" /\ status.code = "OK") =>
    outputs[1] = inputs["input_h"]

\* C8: for every recurrence kind, a Backward call whose output_backprop
\* differs in shape from output_shape, or whose output_h_backprop differs from
\* hidden_state_shape, or (LSTM) whose output_c_backprop differs from
\* hidden_state_shape, ends with an InvalidArgument status, no output
\* allocated and the gradient primitive not invoked.
C8_GradientMismatchFails ==
  (/\ kernel = "MkldnnRNNBackprop"
   /\ \/ /\ Fetched("output_backprop")
         /\ inputs["output_backprop"] # model_shapes.output_shape
      \/ /\ Fetched("output_h_backprop")
         /\ inputs["output_h_backprop"] # model_shapes.hidden_state_shape
      \/ /\ Fetched("output_c_backprop")
         /\ inputs["output_c_backprop"] # model_shapes.hidden_state_shape) =>
    /\ pc = "done"
    /\ status.code = "InvalidArgument"
    /\ DOMAIN outputs = {}
    /\ invoked = 0

\* C9: after a successful Backward call, each of the four outputs has the
\* shape of its forward input (input, input_h, input_c, params), which is
\* also the shape the op's shape function infers for it.
C9_BackpropOutputShapes ==
  (kernel = "MkldnnRNNBackprop" /\ pc = "done" /\ status.code = "OK") =>
    /\ DOMAIN outputs = 0..3
    /\ outputs[0] = inputs["input"]
    /\ outputs[1] = inputs["input_h"]
    /\ outputs[2] = inputs["input_c"]
    /\ outputs[3] = inputs["params"]
    /\ \A i \in 0..3 : outputs[i] = BackpropShapeFn(inputs)[i]

\* C10: when a Forward or Backward call returns, on success or on failure,
\* none of the transient objects it created (the engine, the layout
\* descriptors, the memory views, the primitive descriptors) is still held.
C10_TransientsReleased ==
  (kernel \in RnnKernels /\ pc = "done") => held = {}

\* C11: the reserve space a training Forward call allocates and the one a
\* Backward call lays its workspace over are sized by the same descriptor:
\* for the model types and resolved shapes of the call, the rnn_forward::desc
\* the backward kernel builds has exactly the arguments of the one a training
\* forward kernel builds (forward_training, recurrence kind, direction, input
\* mode, num_units, num_layers, seq_length, state_outputs and the four layout
\* descriptors), and conversely.
C11_ReserveSpaceDescriptor ==
  /\ (kernel = "MkldnnRNNBackprop" /\ fwd_desc.prop_kind # "none") =>
       fwd_desc = ForwardPrimDesc(model_types, model_shapes, TRUE,
                                  ForwardDescs(model_shapes, TotalW))
  /\ (kernel = "MkldnnRNN" /\ is_training /\ fwd_desc.prop_kind # "none") =>
       fwd_desc = BackwardFwdPrimDesc(model_types, model_shapes,
                                      BackwardDescs(model_shapes, TotalW))

\* C11 witness: a Backward call of a bidirectional one-layer LSTM model has
\* built its forward descriptor and invoked the gradient primitive.
C11_Witness ==
  /\ kernel = "MkldnnRNNBackprop" /\ pc = "release" /\ invoked = 1
  /\ model_types.rnn_mode = "rnn_lstm"
  /\ model_types.rnn_direction_mode = "rnn_bidirectional"
  /\ fwd_desc.prop_kind = "forward_training"
  /\ fwd_desc.num_layers = 1 /\ fwd_desc.hx_desc = <<1, 2, 1>>
  /\ Len(inputs["reserve_space"]) = 1

\* The attribute strings a constructed kernel's model types were parsed from.
DirectionAttrOf(mt) ==
  IF mt.rnn_direction_mode = "rnn_bidirectional"
  THEN "bidirectional" ELSE "unidirectional"

RnnModeAttrOf(mt) ==
  CASE mt.rnn_mode = "rnn_lstm" -> "lstm"
    [] mt.rnn_mode = "rnn_gru" -> "gru"
    [] OTHER -> mt.rnn_mode

\* C12: for every combination of an input of rank 2 or 3 with an input_h of
\* rank 2 or 3, the shape function of the Forward op infers for output the
\* shape [seq_length, batch_size, dir_count*num_units] (rank-3 input) or
\* [batch_size, dir_count*num_units] (rank-2 input), num_units being the one
\* the kernel resolves (dimension 1 of a rank-2 input_h, dimension 2 of a
\* rank-3 one); for output_h the shape of input_h; and for output_c the shape
\* of input_h iff the model is an LSTM, else the empty shape.
C12_ForwardShapeFn ==
  (kernel = "MkldnnRNN" /\ InCall) =>
    LET Tx == inputs["input"]
        Thx == inputs["input_h"]
        width == model_shapes.dir_count * model_shapes.num_units
        output == IF Len(Tx) = 3 THEN <<Tx[1], Tx[2], width>> ELSE <<Tx[1], width>>
    IN  \A r \in ForwardShapeFn(DirectionAttrOf(model_types),
                                RnnModeAttrOf(model_types), inputs) :
          /\ r.code = "OK"
          /\ r.outputs[0] = output
          /\ r.outputs[1] = Thx
          /\ r.outputs[2] = IF model_types.rnn_mode = "rnn_lstm" THEN Thx ELSE Empty

\* C13: a size query given any input that is not a scalar ends with an error
\* status: no params_size output is allocated, no size is written, and no
\* value is read from the tensor that is not a scalar.
C13_NonScalarRejected ==
  (kernel = "MkldnnRNNParamsSize" /\ InCall /\ log # {}) =>
    /\ pc = "done"
    /\ status.code = "InvalidArgument"
    /\ DOMAIN outputs = {}
    /\ params_size = -1
    /\ \A a \in DOMAIN inputs : NotScalarLine(a) \notin log

\* The tensors a message of the kernels names.
NamedIn(text) ==
  CASE text = "input_h and input_c must have the same shape: " ->
         {"input_h", "input_c"}
    [] text = "h and c must have the same shape: " -> {"input_h", "input_c"}
    [] text = "Invalid dhy shape: " -> {"output_h_backprop"}
    [] text = "Invalid dcy shape: " -> {"output_c_backprop"}
    [] OTHER -> {}

\* C14: every failed shape validation (input_c against input_h,
\* output_backprop against output_shape, output_h_backprop and
\* output_c_backprop against hidden_state_shape) ends with an error whose
\* message names the tensor that failed the check and carries exactly the two
\* shapes that were compared.
C14_MessageNamesShapes ==
  (kernel \in RnnKernels /\ InCall /\ status.code = "InvalidArgument") =>
    LET failed ==
          IF HasInputC(model_types) /\ inputs["input_c"] # inputs["input_h"]
          THEN [tensor |-> "input_c",
                compared |-> {inputs["input_h"], inputs["input_c"]}]
          ELSE IF inputs["output_backprop"] # model_shapes.output_shape
          THEN [tensor |-> "output_backprop",
                compared |-> {inputs["output_backprop"], model_shapes.output_shape}]
          ELSE IF inputs["output_h_backprop"] # model_shapes.hidden_state_shape
          THEN [tensor |-> "output_h_backprop",
                compared |-> {inputs["output_h_backprop"],
                              model_shapes.hidden_state_shape}]
          ELSE [tensor |-> "output_c_backprop",
                compared |-> {inputs["output_c_backprop"],
                              model_shapes.hidden_state_shape}]
    IN  /\ failed.tensor \in NamedIn(status.text)
        /\ {status.shapes[1], status.shapes[2]} = failed.compared

RECURSIVE AloneFrom(_, _)
AloneFrom(cs, n) ==
  IF n = 0 THEN cs
  ELSE AloneFrom(cs \cup UNION {CallStep(kernel, model_types, is_training, c) :
                                c \in cs}, n - 1)

Alone(in) == AloneFrom({CallStart(kernel, model_types, in)}, 3)

\* C16: under any interleaving of Compute calls running at once on a kernel
\* instance, each call's resolved shapes, allocated outputs and status are
\* those of the same call run alone (the calls share only the model types
\* and is_training, which no step of a call writes).
C16_CallsIndependent ==
  \A t \in Threads :
    DOMAIN calls[t].inputs # {} => calls[t] \in Alone(calls[t].inputs)

C18_ParamsBackpropZeroed ==
  /\ (kernel = "MkldnnRNNBackprop" /\ (pc = "execute" \/ invoked > 0)) =>
       /\ 3 \in DOMAIN outputs
       /\ zeroed = NumElements(outputs[3])
  /\ (kernel = "MkldnnRNNBackprop" /\ 3 \notin DOMAIN outputs) => zeroed = 0

\* C18 witness: a Backward call given a params tensor longer than
\* get_param_size asks for has cleared all of params_backprop and invoked the
\* primitive.
C18_Witness ==
  /\ kernel = "MkldnnRNNBackprop" /\ pc = "release" /\ invoked = 1
  /\ NumElements(outputs[3]) > total_w
  /\ zeroed = NumElements(outputs[3])
  /\ zeroed > 0

ForwardPhases ==
  <<"Configured", "ShapesResolved", "BuffersAllocated", "PrimitiveBuilt",
    "Executed", "Released">>

BackwardPhases ==
  <<"Configured", "ShapesResolved", "GradientsValidated", "BuffersAllocated",
    "PrimitiveBuilt", "Executed", "Released">>

IsPrefix(p, q) == Len(p) <= Len(q) /\ \A i \in 1..Len(p) : p[i] = q[i]

\* C19: a Forward call passes through Configured, ShapesResolved,
\* BuffersAllocated, PrimitiveBuilt, Executed, Released in that order,
\* entering none twice, and a Backward call through the same with
\* GradientsValidated after ShapesResolved; a call that has failed has ended
\* where it failed; the primitive has been invoked exactly once when a call
\* has succeeded (having passed every phase), never in a call that has
\* failed, and never before the Executed phase.
C19_PhaseOrder ==
  kernel \in RnnKernels =>
    LET order == IF kernel = "MkldnnRNN" THEN ForwardPhases ELSE BackwardPhases
    IN  /\ IsPrefix(phases, order)
        /\ (pc = "done" /\ status.code = "OK") =>
             phases = order /\ invoked = 1
        /\ status.code # "OK" =>
             /\ pc \in {"done", "killed"}
             /\ invoked = 0
             /\ phases # order
        /\ invoked = (IF Len(phases) >= Len(order) - 1 THEN 1 ELSE 0)

\* C19 witness: a Backward call has passed all seven phases and returns OK.
C19_Witness ==
  /\ kernel = "MkldnnRNNBackprop" /\ pc = "done" /\ status.code = "OK"
  /\ phases = BackwardPhases
  /\ invoked = 1

\* C20: in every Forward and Backward call that reaches the primitive, each
\* memory view built over a tensor uses a descriptor whose element count
\* equals the number of elements of the tensor it is laid over, so that no
\* view reaches past the end of its tensor.
C20_ViewsMatchTensors ==
  (kernel \in RnnKernels /\ invoked > 0) =>
    \A v \in DOMAIN views :
      NumElements(descs[views[v].desc]) = NumElements(views[v].tensor)

\* A number to sixteen bytes, where the sizes of this model never wrap.
Wide(v) == Bytes(v, 16)

\* The sizing formula in exact arithmetic.
ExactSize(kind, dir_count, input_size, num_units, num_layers) ==
  LET g == Wide(gate_multiplier(kind))
      first == BytesMul(BytesMul(g, Wide(num_units)),
                        BytesAdd(BytesAdd(Wide(input_size), Wide(num_units)),
                                 Wide(2)))
      higher == BytesMul(BytesMul(BytesMul(g, Wide(num_layers - 1)),
                                  Wide(num_units)),
                         BytesAdd(BytesMul(Wide(2), Wide(num_units)), Wide(2)))
  IN  BytesMul(BytesAdd(first, higher), Wide(dir_count))

\* The sixteen-byte number is the sign extension of its low eight bytes.
FitsInt64(b) ==
  \A i \in DOMAIN b : i > 8 => b[i] = (IF b[8] >= 128 THEN 255 ELSE 0)

\* The exact size of the model the call is about.
ExactSizeOfCall ==
  IF kernel = "MkldnnRNNParamsSize"
  THEN ExactSize(model_types.rnn_mode, DirCount(model_types), inputs["input_size"],
                 inputs["num_units"], inputs["num_layers"])
  ELSE ExactSize(model_types.rnn_mode, model_shapes.dir_count,
                 model_shapes.input_size, model_shapes.num_units,
                 model_shapes.num_layers)

\* The call has computed the size and holds it: params_size written by the
\* size query, total_w of Forward and Backward.
SizeUsed ==
  \/ kernel = "MkldnnRNNParamsSize" /\ pc = "done" /\ status.code = "OK"
  \/ kernel \in RnnKernels /\ pc = "execute"

\* The call ended inside get_param_size.
SizeTrapped ==
  /\ pc = "killed"
  /\ \/ kernel = "MkldnnRNNParamsSize" /\ DOMAIN inputs = {SizeArgs[j] : j \in 1..3}
     \/ kernel \in RnnKernels /\ held = {"eng"}

\* C21: whenever the exact value of the sizing formula fits in a signed
\* 64-bit integer, the parameter length the size query writes and the total_w
\* Forward and Backward use equal that exact value: no product or sum wrapped
\* modulo 2^32 (nor trapped) and the result was not narrowed to 32 bits.
C21_SizeExact ==
  (SizeUsed \/ SizeTrapped) =>
    (FitsInt64(ExactSizeOfCall) =>
       /\ ~SizeTrapped
       /\ Wide(IF kernel = "MkldnnRNNParamsSize" THEN params_size ELSE total_w)
            = ExactSizeOfCall)

====
